---------------------------- MODULE Spec2Model ----------------------------
(***************************************************************************)
(* A model of vocabfinder.py: the run of main() as a state machine.        *)
(*                                                                         *)
(* Text is modelled as it is in Python: a str is a sequence of characters, *)
(* every character a one-character TLA+ string (the full-width glyphs are  *)
(* written by their code point name, "U+FF0C").  A corpus file is the      *)
(* sequence of lines the text-file iterator yields, each with its line     *)
(* terminator.  A command-line argument is a sequence of items, each a     *)
(* whitespace character or a maximal run of non-whitespace characters (an  *)
(* abbreviation, kept whole as a TLA+ string).  Standard output is the     *)
(* sequence of the pieces written to it: message texts and newlines.       *)
(***************************************************************************)
EXTENDS Integers, Sequences, FiniteSets

\* ------------------------------------------------------------------ bounds

\* Data rows of an enumerated sample corpus.
MaxRows == 2
\* Rows of the largest many-word corpus (every row a different word).
MaxWords == 13
\* Longest command line enumerated (program name included).
MaxArgc == 4

\* ------------------------------------------------------- program constants

\* len(parts) < 8: the fewest fields of a row that is looked at.
MinFields == 8
\* if i % 6 == 0: words per output line.
Columns == 6
\* {word:<10}: the width a word is left-justified to.
CellWidth == 10
\* len(sys.argv) != 3
Argc == 3
\* id_field[:2]
PrefixLen == 2

\* ------------------------------------------------------------- characters

\* Code point of each character the model uses (ord()).
Ord(c) ==
    CASE c = "\t" -> 9
      [] c = "\n" -> 10
      [] c = " " -> 32
      [] c = "\"" -> 34
      [] c = "0" -> 48
      [] c = "1" -> 49
      [] c = "4" -> 52
      [] c = "Y" -> 89
      [] c = "a" -> 97
      [] c = "b" -> 98
      [] c = "c" -> 99
      [] c = "d" -> 100
      [] c = "h" -> 104
      [] c = "k" -> 107
      [] c = "n" -> 110
      [] c = "x" -> 120
      [] c = "y" -> 121
      [] c = "z" -> 122
      [] c = "U+3000" -> 12288
      [] c = "U+3002" -> 12290
      [] c = "U+300A" -> 12298
      [] c = "U+300B" -> 12299
      [] c = "U+3010" -> 12304
      [] c = "U+3011" -> 12305
      [] c = "U+FF01" -> 65281
      [] c = "U+FF08" -> 65288
      [] c = "U+FF09" -> 65289
      [] c = "U+FF0C" -> 65292
      [] c = "U+FF1A" -> 65306
      [] c = "U+FF1B" -> 65307
      [] c = "U+FF1F" -> 65311

\* str.isspace() on the characters of the model (U+3000 is the ideographic
\* space, which str.strip() removes like the ASCII ones).
IsSpace(c) == c \in {" ", "\t", "\n", "U+3000"}

\* str.lower() on one character.
LowerChar(c) == IF c = "Y" THEN "y" ELSE c

\* str.lower()
Lower(s) == [j \in 1..Len(s) |-> LowerChar(s[j])]

RECURSIVE LStrip(_)
LStrip(s) == IF s # <<>> /\ IsSpace(Head(s)) THEN LStrip(Tail(s)) ELSE s

RECURSIVE RStrip(_)
RStrip(s) ==
    IF s # <<>> /\ IsSpace(s[Len(s)]) THEN RStrip(SubSeq(s, 1, Len(s) - 1)) ELSE s

\* str.strip(): leading and trailing whitespace removed.
Strip(s) == RStrip(LStrip(s))

\* str.split(sep) for a one-character sep: the fields between the separators,
\* empty fields kept, one field more than there are separators.
SplitOn(s, sep) ==
    LET seps == {j \in 1..Len(s) : s[j] = sep}
        \* The place of the k-th separator; 0 and Len(s) + 1 bound the string.
        place[k \in 0..(Cardinality(seps) + 1)] ==
            IF k = 0 THEN 0
            ELSE IF k = Cardinality(seps) + 1 THEN Len(s) + 1
            ELSE CHOOSE j \in seps : Cardinality({m \in seps : m < j}) = k - 1
    IN [k \in 1..(Cardinality(seps) + 1) |-> SubSeq(s, place[k - 1] + 1, place[k] - 1)]

\* The test as a test of one character: needle is one character of haystack.
IsSubstring_OneCharacter(needle, haystack) ==
    Len(needle) = 1 /\ \E j \in 1..Len(haystack) : haystack[j] = needle[1]

\* needle in haystack, for two str: needle is a contiguous part of haystack.
IsSubstring(needle, haystack) ==
    \E j \in 1..(Len(haystack) - Len(needle) + 1) :
        SubSeq(haystack, j, j + Len(needle) - 1) = needle

\* The string literal of the punctuation test: two adjacent literals, joined.
PUNCTUATION ==
    <<"U+FF0C", "U+3002", "U+FF1B", "U+FF1A", "U+FF1F", "U+FF01", "\"", "\"">>
    \o <<"U+FF08", "U+FF09", "U+3010", "U+3011", "U+300A", "U+300B">>

\* s < t for two str: by code point, a proper prefix first.
RECURSIVE StrLess(_, _)
StrLess(s, t) ==
    IF t = <<>> THEN FALSE
    ELSE IF s = <<>> THEN TRUE
    ELSE IF Head(s) # Head(t) THEN Ord(Head(s)) < Ord(Head(t))
    ELSE StrLess(Tail(s), Tail(t))

\* sorted(words): the words of a set in ascending order, each at the place
\* that the number of smaller words gives it.
Sorted(S) ==
    [k \in 1..Cardinality(S) |->
        CHOOSE w \in S : Cardinality({v \in S : StrLess(v, w)}) = k - 1]

\* f"{word:<10}": the word, then spaces up to the cell width.
LeftJustify(word) ==
    word \o [j \in 1..(IF Len(word) < CellWidth THEN CellWidth - Len(word) ELSE 0) |-> " "]

\* -------------------------------------------------------- book-code table

BookTable ==
    << <<"GEN", "0", "1">>, <<"EXO", "0", "2">>, <<"LEV", "0", "3">>,
       <<"NUM", "0", "4">>, <<"DEU", "0", "5">>, <<"JOS", "0", "6">>,
       <<"JDG", "0", "7">>, <<"RUT", "0", "8">>, <<"1SA", "0", "9">>,
       <<"2SA", "1", "0">>, <<"1KI", "1", "1">>, <<"2KI", "1", "2">>,
       <<"1CH", "1", "3">>, <<"2CH", "1", "4">>, <<"EZR", "1", "5">>,
       <<"NEH", "1", "6">>, <<"EST", "1", "7">>, <<"JOB", "1", "8">>,
       <<"PSA", "1", "9">>, <<"PRO", "2", "0">>, <<"ECC", "2", "1">>,
       <<"SNG", "2", "2">>, <<"ISA", "2", "3">>, <<"JER", "2", "4">>,
       <<"LAM", "2", "5">>, <<"EZK", "2", "6">>, <<"DAN", "2", "7">>,
       <<"HOS", "2", "8">>, <<"JOL", "2", "9">>, <<"AMO", "3", "0">>,
       <<"OBA", "3", "1">>, <<"JON", "3", "2">>, <<"MIC", "3", "3">>,
       <<"NAM", "3", "4">>, <<"HAB", "3", "5">>, <<"ZEP", "3", "6">>,
       <<"HAG", "3", "7">>, <<"ZEC", "3", "8">>, <<"MAL", "3", "9">>,
       <<"MAT", "4", "0">>, <<"MRK", "4", "1">>, <<"LUK", "4", "2">>,
       <<"JHN", "4", "3">>, <<"ACT", "4", "4">>, <<"ROM", "4", "5">>,
       <<"1CO", "4", "6">>, <<"2CO", "4", "7">>, <<"GAL", "4", "8">>,
       <<"EPH", "4", "9">>, <<"PHP", "5", "0">>, <<"COL", "5", "1">>,
       <<"1TH", "5", "2">>, <<"2TH", "5", "3">>, <<"1TI", "5", "4">>,
       <<"2TI", "5", "5">>, <<"TIT", "5", "6">>, <<"PHM", "5", "7">>,
       <<"HEB", "5", "8">>, <<"JAS", "5", "9">>, <<"1PE", "6", "0">>,
       <<"2PE", "6", "1">>, <<"1JN", "6", "2">>, <<"2JN", "6", "3">>,
       <<"3JN", "6", "4">>, <<"JUD", "6", "5">>, <<"REV", "6", "6">> >>

\* The dict: abbreviation -> two-character book number.
USFM_TO_BOOK_NUM ==
    [b \in {BookTable[j][1] : j \in 1..Len(BookTable)} |->
        LET e == BookTable[CHOOSE j \in 1..Len(BookTable) : BookTable[j][1] = b]
        IN <<e[2], e[3]>>]

\* ------------------------------------------------------------ the inputs

\* The whitespace items of an argument.
ArgSpace == {" ", "\t"}

\* sys.argv[n].split(): the items that are not whitespace, in order.
SplitWords(arg) == SelectSeq(arg, LAMBDA x : x \notin ArgSpace)

\* The arguments tried: empty, all-whitespace, one book, two books separated
\* by a run of whitespace, and lists with unrecognized abbreviations.
SampleArgs ==
    { <<>>, <<" ">>, <<"GEN">>, <<"MAT">>, <<"GEN", " ", "\t", "MAT">>,
      <<"XYZ", " ", "GEN", " ", "xyz">>, <<"mat">> }

\* sys.argv: the program name, then the arguments.
ProgName == <<"vocabfind.py">>

RECURSIVE ArgvOfLen(_)
ArgvOfLen(n) ==
    IF n = 1 THEN {<<ProgName>>}
    ELSE {a \o <<b>> : a \in ArgvOfLen(n - 1), b \in {<<"GEN">>, <<"MAT">>}}

Argvs ==
    {<<ProgName, a, b>> : a \in SampleArgs, b \in SampleArgs}
    \cup UNION {ArgvOfLen(n) : n \in (1..MaxArgc) \ {Argc}}

\* One line of a tab-separated file: the fields joined by tabs, and the newline.
RECURSIVE JoinTab(_)
JoinTab(fields) ==
    IF Len(fields) = 1 THEN fields[1]
    ELSE fields[1] \o <<"\t">> \o JoinTab(Tail(fields))

MkLine(fields) == JoinTab(fields) \o <<"\n">>

Filler == <<"x">>

\* A well-formed row of 8 fields: id, text and exclude at 0, 2 and 4.
Row(id, text, exclude) ==
    MkLine(<<id, Filler, text, Filler, exclude, Filler, Filler, Filler>>)

HeaderLine == MkLine(<<<<"x">>, <<"x">>, <<"x">>>>)

\* Ids of Genesis 1 and Matthew 1 (shortened: book, then two more digits).
GenId == <<"0", "1", "0", "1">>
MatId == <<"4", "0", "0", "1">>

SampleRows ==
    { Row(GenId, <<"h">>, <<>>), Row(MatId, <<"h">>, <<>>), Row(MatId, <<"k">>, <<>>) }

\* Headers tried: a header, and a first line that is itself a record of Matthew.
SampleHeaders == { HeaderLine, Row(MatId, <<"z">>, <<>>) }

RECURSIVE SeqsUpTo(_, _)
SeqsUpTo(S, n) ==
    IF n = 0 THEN {<<>>}
    ELSE LET shorter == SeqsUpTo(S, n - 1)
         IN shorter \cup {s \o <<x>> : s \in {t \in shorter : Len(t) = n - 1}, x \in S}

\* Sample corpora: the file with no line at all, and a header with up to
\* MaxRows sample rows.
SampleCorpora ==
    {<<>>} \cup {<<h>> \o rows : h \in SampleHeaders, rows \in SeqsUpTo(SampleRows, MaxRows)}

\* Shapes of one data row: every combination of id, text, exclude flag,
\* number of fields (7 or 8) and empty or filled trailing fields.
ShapeIds == { MatId, GenId, <<"4">>, <<" ", "4", "0", "1">> }
ShapeTexts ==
    { <<"h">>, <<" ", "h", "U+3000">>, <<>>, <<" ">>, <<"U+FF0C">>,
      <<"U+FF0C", "U+3002">>, <<"U+3002", "U+FF0C">>, <<"U+FF0C", "h">> }
ShapeFlags == { <<>>, <<"y">>, <<" ", "Y", " ">>, <<"n">> }
ShapeTails == { Filler, <<>> }

ShapeRow(id, text, flag, tail, n) ==
    MkLine([j \in 1..n |->
              CASE j = 1 -> id [] j = 3 -> text [] j = 5 -> flag
                [] j \in {2, 4} -> Filler [] OTHER -> tail])

ShapeRows ==
    { ShapeRow(id, text, flag, tail, n) :
        id \in ShapeIds, text \in ShapeTexts, flag \in ShapeFlags,
        tail \in ShapeTails, n \in {MinFields - 1, MinFields} }

ShapeCorpora == { <<HeaderLine, r>> : r \in ShapeRows }

\* The n-th word of a many-word corpus: one word longer than a cell, then
\* two-letter words, in descending order.
Letters == <<"d", "c", "b", "a">>
WordNo(n) ==
    IF n = 1 THEN [j \in 1..(CellWidth + 1) |-> "k"]
    ELSE <<Letters[((n - 2) \div 4) + 1], Letters[((n - 2) % 4) + 1]>>

WordCorpora ==
    { <<HeaderLine>> \o [j \in 1..n |-> Row(MatId, WordNo(j), <<>>)] : n \in 3..MaxWords }

\* A read that fails: the line-th read of the load-th load raises.
NoFault == [load |-> 0, line |-> 0]
Faults == {NoFault} \cup [load : 1..2, line : 1..(MaxRows + 1)]

\* The corpus file as the run finds it.
Disks ==
    { [exists |-> FALSE, readable |-> FALSE, lines |-> <<>>, fault |-> NoFault],
      [exists |-> TRUE, readable |-> FALSE, lines |-> <<>>, fault |-> NoFault] }
    \cup [exists : {TRUE}, readable : {TRUE}, lines : SampleCorpora, fault : Faults]
    \cup [exists : {TRUE}, readable : {TRUE},
          lines : ShapeCorpora \cup WordCorpora, fault : {NoFault}]

\* ------------------------------------------------------------- the state

VARIABLES
    argv,            \* sys.argv
    disk,            \* token_OCCB-simplified.tsv as the run finds it
    pc,              \* where the run is
    out,             \* standard output so far
    status,          \* the exit statuses the process has ended with (none while it runs)
    first_books, second_books,
    first_prefixes, second_prefixes,
    loadNo,          \* calls of load_vocabulary so far
    handles,         \* file handles open now
    opens,           \* file handles acquired so far
    pos,             \* lines read from the open handle
    vocabulary,      \* the set load_vocabulary is building
    first_vocab, second_vocab, unique_vocab,
    sorted_vocab,
    i                \* enumerate() index of the word last printed

vars ==
    <<argv, disk, pc, out, status, first_books, second_books, first_prefixes,
      second_prefixes, loadNo, handles, opens, pos, vocabulary, first_vocab,
      second_vocab, unique_vocab, sorted_vocab, i>>

\* A piece of output: a message (its name, its number, its words) or a newline.
Msg(id, n, ws) == [id |-> id, n |-> n, ws |-> ws]
NL == Msg("\n", 0, <<>>)
\* print(text)
Println(m) == <<m, NL>>

Init ==
    /\ argv \in Argvs
    /\ disk \in Disks
    /\ pc = "main"
    /\ out = <<>>
    /\ status = <<>>
    /\ first_books = <<>> /\ second_books = <<>>
    /\ first_prefixes = <<>> /\ second_prefixes = <<>>
    /\ loadNo = 0 /\ handles = 0 /\ opens = 0 /\ pos = 0
    /\ vocabulary = {}
    /\ first_vocab = {} /\ second_vocab = {} /\ unique_vocab = {}
    /\ sorted_vocab = <<>>
    /\ i = 0

\* sys.exit(code): the process ends with the status.
Exit(code) == pc' = "exited" /\ status' = Append(status, code)

\* ------------------------------------------------------------ the actions

\* main: the title banner.
Banner ==
    /\ pc = "main"
    /\ out' = out \o Println(Msg("banner", 0, <<>>)) \o Println(Msg("rule", 50, <<>>))
    /\ pc' = "parse_arguments"
    /\ UNCHANGED <<argv, disk, status, first_books, second_books, first_prefixes,
                   second_prefixes, loadNo, handles, opens, pos, vocabulary,
                   first_vocab, second_vocab, unique_vocab, sorted_vocab, i>>

\* The test with "<" for "!=": a command line that is too long passes.
UsageError_TooFewOnly(args) == Len(args) < Argc

\* len(sys.argv) != 3
UsageError(args) == Len(args) # Argc

\* parse_arguments()
parse_arguments ==
    /\ pc = "parse_arguments"
    /\ IF UsageError(argv)
       THEN /\ out' = out \o Println(Msg("usage", 0, <<>>))
                          \o Println(Msg("usage_example", 0, <<>>))
            /\ Exit(1)
            /\ UNCHANGED <<first_books, second_books>>
       ELSE /\ first_books' = SplitWords(argv[2])
            /\ second_books' = SplitWords(argv[3])
            /\ pc' = "validate_books"
            /\ UNCHANGED <<out, status>>
    /\ UNCHANGED <<argv, disk, first_prefixes, second_prefixes, loadNo, handles,
                   opens, pos, vocabulary, first_vocab, second_vocab,
                   unique_vocab, sorted_vocab, i>>

\* Only the first unrecognized abbreviation is kept.
InvalidBooks_FirstOnly(books) ==
    LET all == SelectSeq(books, LAMBDA b : b \notin DOMAIN USFM_TO_BOOK_NUM)
    IN IF all = <<>> THEN <<>> ELSE <<all[1]>>

\* [book for book in books if book not in USFM_TO_BOOK_NUM]
InvalidBooks(books) == SelectSeq(books, LAMBDA b : b \notin DOMAIN USFM_TO_BOOK_NUM)

\* validate_books(first_books + second_books)
validate_books ==
    /\ pc = "validate_books"
    /\ LET invalid_books == InvalidBooks(first_books \o second_books)
       IN IF invalid_books # <<>>
          THEN /\ out' = out \o Println(Msg("unrecognized", 0, invalid_books))
                             \o Println(Msg("valid_hint", 0, <<>>))
               /\ Exit(1)
          ELSE /\ pc' = "get_book_prefixes"
               /\ UNCHANGED <<out, status>>
    /\ UNCHANGED <<argv, disk, first_books, second_books, first_prefixes,
                   second_prefixes, loadNo, handles, opens, pos, vocabulary,
                   first_vocab, second_vocab, unique_vocab, sorted_vocab, i>>

\* get_book_prefixes(books)
get_book_prefixes(books) == [j \in 1..Len(books) |-> USFM_TO_BOOK_NUM[books[j]]]

\* main: both prefix lists, then the echo of the two groups.
ResolvePrefixes ==
    /\ pc = "get_book_prefixes"
    /\ first_prefixes' = get_book_prefixes(first_books)
    /\ second_prefixes' = get_book_prefixes(second_books)
    /\ out' = out \o Println(Msg("first_set", 0, first_books))
                  \o Println(Msg("second_set", 0, second_books))
                  \o <<NL>>
    /\ pc' = "load"
    /\ UNCHANGED <<argv, disk, status, first_books, second_books, loadNo, handles,
                   opens, pos, vocabulary, first_vocab, second_vocab,
                   unique_vocab, sorted_vocab, i>>

\* x in book_prefixes, for a list.
InList(x, list) == \E j \in 1..Len(list) : list[j] = x

\* The body of the for loop of load_vocabulary: the vocabulary after the line.
ProcessLine(line, book_prefixes, vocab) ==
    LET parts == SplitOn(Strip(line), "\t")
    IN IF Len(parts) < MinFields THEN vocab
       ELSE LET id_field == parts[1]
                text == parts[3]
                exclude == parts[5]
            IN IF Lower(Strip(exclude)) = <<"y">> THEN vocab
               ELSE IF /\ Len(id_field) >= PrefixLen
                       /\ InList(SubSeq(id_field, 1, PrefixLen), book_prefixes)
                       /\ Strip(text) # <<>>
                       /\ ~IsSubstring(Strip(text), PUNCTUATION)
                    THEN vocab \cup {Strip(text)}
                    ELSE vocab

\* The prefixes of the load under way.
CurrentPrefixes == IF loadNo = 1 THEN first_prefixes ELSE second_prefixes

\* The read of line n raises in this load.
ReadFails(n) == disk.fault = [load |-> loadNo, line |-> n]

\* A file closed at the end of the scan only: an exception leaves it open.
WithExit_LeakOnError(open, raised) == IF raised THEN open ELSE open - 1

\* The number of open handles once the with block is left, by its end or by
\* an exception raised in it: the file is closed either way.
WithExit(open, raised) == open - 1

\* main: the progress message, and the call of load_vocabulary.
BeginLoad ==
    /\ pc = "load"
    /\ out' = out \o Println(Msg(IF loadNo = 0 THEN "loading_first" ELSE "loading_second",
                                 0, <<>>))
    /\ loadNo' = loadNo + 1
    /\ vocabulary' = {}
    /\ pc' = "open"
    /\ UNCHANGED <<argv, disk, status, first_books, second_books, first_prefixes,
                   second_prefixes, handles, opens, pos, first_vocab, second_vocab,
                   unique_vocab, sorted_vocab, i>>

\* with open(filename, 'r', encoding='utf-8') as file
OpenFile ==
    /\ pc = "open"
    /\ IF ~disk.exists
       THEN pc' = "except FileNotFoundError" /\ UNCHANGED <<handles, opens, pos>>
       ELSE IF ~disk.readable
       THEN pc' = "except Exception" /\ UNCHANGED <<handles, opens, pos>>
       ELSE /\ handles' = handles + 1
            /\ opens' = opens + 1
            /\ pos' = 0
            /\ pc' = "next"
    /\ UNCHANGED <<argv, disk, out, status, first_books, second_books,
                   first_prefixes, second_prefixes, loadNo, vocabulary,
                   first_vocab, second_vocab, unique_vocab, sorted_vocab, i>>

\* The loop without the header skip: the first line is scanned like the rest.
SkipHeader_NoSkip ==
    /\ pc = "next"
    /\ pos' = 0
    /\ pc' = "for"
    /\ UNCHANGED <<argv, disk, out, status, first_books, second_books,
                   first_prefixes, second_prefixes, loadNo, handles, opens,
                   vocabulary, first_vocab, second_vocab, unique_vocab,
                   sorted_vocab, i>>

\* next(file): the first line is read and dropped; with no line to read, or a
\* failing read, the exception leaves the with block, which closes the file.
SkipHeader ==
    /\ pc = "next"
    /\ IF Len(disk.lines) = 0 \/ ReadFails(1)
       THEN handles' = WithExit(handles, TRUE) /\ pc' = "except Exception" /\ UNCHANGED pos
       ELSE pos' = 1 /\ pc' = "for" /\ UNCHANGED handles
    /\ UNCHANGED <<argv, disk, out, status, first_books, second_books,
                   first_prefixes, second_prefixes, loadNo, opens, vocabulary,
                   first_vocab, second_vocab, unique_vocab, sorted_vocab, i>>

\* for line in file: one line read and filtered.
ScanLine ==
    /\ pc = "for"
    /\ pos < Len(disk.lines)
    /\ IF ReadFails(pos + 1)
       THEN /\ handles' = WithExit(handles, TRUE)
            /\ pc' = "except Exception"
            /\ UNCHANGED <<pos, vocabulary>>
       ELSE /\ vocabulary' = ProcessLine(disk.lines[pos + 1], CurrentPrefixes, vocabulary)
            /\ pos' = pos + 1
            /\ UNCHANGED <<pc, handles>>
    /\ UNCHANGED <<argv, disk, out, status, first_books, second_books,
                   first_prefixes, second_prefixes, loadNo, opens, first_vocab,
                   second_vocab, unique_vocab, sorted_vocab, i>>

\* The end of the file: the with block closes it, and load_vocabulary returns
\* the set to main.
EndScan ==
    /\ pc = "for"
    /\ pos = Len(disk.lines)
    /\ handles' = WithExit(handles, FALSE)
    /\ IF loadNo = 1
       THEN first_vocab' = vocabulary /\ pc' = "load" /\ UNCHANGED second_vocab
       ELSE second_vocab' = vocabulary /\ pc' = "difference" /\ UNCHANGED first_vocab
    /\ UNCHANGED <<argv, disk, out, status, first_books, second_books,
                   first_prefixes, second_prefixes, loadNo, opens, pos, vocabulary,
                   unique_vocab, sorted_vocab, i>>

\* The handler without its sys.exit(1): the load returns the empty set.
HandleFileNotFound_NoExit ==
    /\ pc = "except FileNotFoundError"
    /\ out' = out \o Println(Msg("file_not_found", 0, <<>>))
                  \o Println(Msg("file_hint", 0, <<>>))
    /\ IF loadNo = 1
       THEN first_vocab' = vocabulary /\ pc' = "load" /\ UNCHANGED second_vocab
       ELSE second_vocab' = vocabulary /\ pc' = "difference" /\ UNCHANGED first_vocab
    /\ UNCHANGED <<argv, disk, status, first_books, second_books, first_prefixes,
                   second_prefixes, loadNo, handles, opens, pos, vocabulary,
                   unique_vocab, sorted_vocab, i>>

\* except FileNotFoundError
HandleFileNotFound ==
    /\ pc = "except FileNotFoundError"
    /\ out' = out \o Println(Msg("file_not_found", 0, <<>>))
                  \o Println(Msg("file_hint", 0, <<>>))
    /\ Exit(1)
    /\ UNCHANGED <<argv, disk, first_books, second_books, first_prefixes,
                   second_prefixes, loadNo, handles, opens, pos, vocabulary,
                   first_vocab, second_vocab, unique_vocab, sorted_vocab, i>>

\* except Exception as e
HandleException ==
    /\ pc = "except Exception"
    /\ out' = out \o Println(Msg("error_reading", 0, <<>>))
    /\ Exit(1)
    /\ UNCHANGED <<argv, disk, first_books, second_books, first_prefixes,
                   second_prefixes, loadNo, handles, opens, pos, vocabulary,
                   first_vocab, second_vocab, unique_vocab, sorted_vocab, i>>

\* The operands exchanged.
SetDifference_Reversed(second, first) == first \ second

\* unique_vocab = second_vocab - first_vocab
SetDifference(second, first) == second \ first

Difference ==
    /\ pc = "difference"
    /\ unique_vocab' = SetDifference(second_vocab, first_vocab)
    /\ pc' = "statistics"
    /\ UNCHANGED <<argv, disk, out, status, first_books, second_books,
                   first_prefixes, second_prefixes, loadNo, handles, opens, pos,
                   vocabulary, first_vocab, second_vocab, sorted_vocab, i>>

\* The statistics block, and the test of unique_vocab.
Statistics ==
    /\ pc = "statistics"
    /\ out' = out \o <<NL>> \o Println(Msg("statistics", 0, <<>>))
                  \o Println(Msg("words_first", Cardinality(first_vocab), <<>>))
                  \o Println(Msg("words_second", Cardinality(second_vocab), <<>>))
                  \o Println(Msg("words_unique", Cardinality(unique_vocab), <<>>))
    /\ pc' = IF unique_vocab # {} THEN "list" ELSE "no unique"
    /\ UNCHANGED <<argv, disk, status, first_books, second_books, first_prefixes,
                   second_prefixes, loadNo, handles, opens, pos, vocabulary,
                   first_vocab, second_vocab, unique_vocab, sorted_vocab, i>>

\* The heading of the word list, and sorted(unique_vocab).
ListHeading ==
    /\ pc = "list"
    /\ out' = out \o <<NL>> \o Println(Msg("unique_found", 0, second_books))
                  \o Println(Msg("rule", 40, <<>>))
    /\ sorted_vocab' = Sorted(unique_vocab)
    /\ i' = 0
    /\ pc' = "enumerate"
    /\ UNCHANGED <<argv, disk, status, first_books, second_books, first_prefixes,
                   second_prefixes, loadNo, handles, opens, pos, vocabulary,
                   first_vocab, second_vocab, unique_vocab>>

\* The line broken one word late.
WordOutput_WrapLate(word, n) ==
    <<Msg("word", 0, LeftJustify(word))>>
    \o (IF n % (Columns + 1) = 0 THEN <<NL>> ELSE <<>>)

\* What one pass of the loop writes for the i-th word: the cell, and a newline
\* after every sixth.
WordOutput(word, n) ==
    <<Msg("word", 0, LeftJustify(word))>> \o (IF n % Columns = 0 THEN <<NL>> ELSE <<>>)

\* for i, word in enumerate(sorted_vocab, 1)
PrintWord ==
    /\ pc = "enumerate"
    /\ i < Len(sorted_vocab)
    /\ i' = i + 1
    /\ out' = out \o WordOutput(sorted_vocab[i + 1], i + 1)
    /\ UNCHANGED <<argv, disk, pc, status, first_books, second_books,
                   first_prefixes, second_prefixes, loadNo, handles, opens, pos,
                   vocabulary, first_vocab, second_vocab, unique_vocab,
                   sorted_vocab>>

\* What follows the last word: the newline of an unfinished line.
FinalNewline(n) == IF n % Columns # 0 THEN <<NL>> ELSE <<>>

\* After the loop: the final newline if needed, and the total line.
PrintTotal ==
    /\ pc = "enumerate"
    /\ i = Len(sorted_vocab)
    /\ out' = out \o FinalNewline(Len(sorted_vocab))
                  \o <<NL>> \o Println(Msg("total", Cardinality(unique_vocab), <<>>))
    /\ pc' = "return"
    /\ UNCHANGED <<argv, disk, status, first_books, second_books, first_prefixes,
                   second_prefixes, loadNo, handles, opens, pos, vocabulary,
                   first_vocab, second_vocab, unique_vocab, sorted_vocab, i>>

\* else: the notice of an empty difference.
NoUnique ==
    /\ pc = "no unique"
    /\ out' = out \o <<NL>> \o Println(Msg("no_unique", 0, second_books))
                  \o Println(Msg("all_appear", 0, <<>>))
    /\ pc' = "return"
    /\ UNCHANGED <<argv, disk, status, first_books, second_books, first_prefixes,
                   second_prefixes, loadNo, handles, opens, pos, vocabulary,
                   first_vocab, second_vocab, unique_vocab, sorted_vocab, i>>

\* main returns and the interpreter ends with status 0.
ReturnFromMain ==
    /\ pc = "return"
    /\ Exit(0)
    /\ UNCHANGED <<argv, disk, out, first_books, second_books, first_prefixes,
                   second_prefixes, loadNo, handles, opens, pos, vocabulary,
                   first_vocab, second_vocab, unique_vocab, sorted_vocab, i>>

Next ==
    \/ Banner
    \/ parse_arguments
    \/ validate_books
    \/ ResolvePrefixes
    \/ BeginLoad
    \/ OpenFile
    \/ SkipHeader
    \/ ScanLine
    \/ EndScan
    \/ HandleFileNotFound
    \/ HandleException
    \/ Difference
    \/ Statistics
    \/ ListHeading
    \/ PrintWord
    \/ PrintTotal
    \/ NoUnique
    \/ ReturnFromMain

Spec == Init /\ [][Next]_vars

\* ------------------------------------------------------------ the claims

\* Output helpers.
HasMsg(id) == \E k \in 1..Len(out) : out[k].id = id
MsgsOf(id) == SelectSeq(out, LAMBDA m : m.id = id)
EndsWith(seq, suffix) ==
    /\ Len(seq) >= Len(suffix)
    /\ SubSeq(seq, Len(seq) - Len(suffix) + 1, Len(seq)) = suffix

\* The glyphs of the punctuation set, as a set.
PunctuationSet == {PUNCTUATION[j] : j \in 1..Len(PUNCTUATION)}

\* A line without its line terminator.
Chomp(line) ==
    IF line # <<>> /\ line[Len(line)] = "\n" THEN SubSeq(line, 1, Len(line) - 1) ELSE line

\* The row condition as C1 states it: the fields are those of the line split
\* on the tab character.
StatedIncluded(line, prefixes) ==
    LET fields == SplitOn(Chomp(line), "\t")
    IN /\ Len(fields) >= MinFields
       /\ Len(fields[1]) >= PrefixLen
       /\ InList(SubSeq(fields[1], 1, PrefixLen), prefixes)
       /\ Lower(Strip(fields[5])) # <<"y">>
       /\ Strip(fields[3]) # <<>>
       /\ ~(Len(Strip(fields[3])) = 1 /\ Strip(fields[3])[1] \in PunctuationSet)

StatedText(line) == Strip(SplitOn(Chomp(line), "\t")[3])

StatedVocabulary(lines, prefixes) ==
    { StatedText(lines[j]) : j \in {k \in 2..Len(lines) : StatedIncluded(lines[k], prefixes)} }

\* C1: whenever a load returns, the set it returns is exactly the set of the
\* trimmed texts of the data rows (the lines after the first) that have at
\* least 8 tab-separated fields, a target prefix, an exclude field other
\* than "y", a non-empty text and a text that is not a lone punctuation glyph.
C1_LoadReturnsStatedRows ==
    /\ (loadNo >= 1 /\ pc \in {"load", "difference"}) =>
          first_vocab = StatedVocabulary(disk.lines, first_prefixes)
    /\ pc = "difference" =>
          second_vocab = StatedVocabulary(disk.lines, second_prefixes)

\* The row just filtered passes every test of the loop before the punctuation
\* test: 8 fields, not excluded, a target book, a non-empty text.
ReachesPunctuationTest(line, prefixes) ==
    LET parts == SplitOn(Strip(line), "\t")
    IN /\ Len(parts) >= MinFields
       /\ Lower(Strip(parts[5])) # <<"y">>
       /\ Len(parts[1]) >= PrefixLen
       /\ InList(SubSeq(parts[1], 1, PrefixLen), prefixes)
       /\ Strip(parts[3]) # <<>>

\* The token of the row just filtered.
ScannedToken == Strip(SplitOn(Strip(disk.lines[pos]), "\t")[3])

\* A data row has just been filtered that reached the punctuation test.
ScannedToPunctuationTest ==
    pc = "for" /\ pos >= 2 /\ ReachesPunctuationTest(disk.lines[pos], CurrentPrefixes)

IsRunOfLiteral(token) ==
    \E a \in 1..Len(PUNCTUATION) :
        \A k \in 1..Len(token) :
            a + k - 1 <= Len(PUNCTUATION) /\ PUNCTUATION[a + k - 1] = token[k]

AllAbbreviations == SplitWords(argv[2]) \o SplitWords(argv[3])

\* The unrecognized ones of a list, in the order of the list.
RECURSIVE Unrecognized(_)
Unrecognized(list) ==
    IF list = <<>> THEN <<>>
    ELSE (IF Head(list) \in DOMAIN USFM_TO_BOOK_NUM THEN <<>> ELSE <<Head(list)>>)
         \o Unrecognized(Tail(list))

\* The read of the corpus fails somewhere: the file cannot be opened for
\* reading, has no line for the header skip, or a read of one of its lines
\* raises.
ReadFailure ==
    /\ disk.exists
    /\ \/ ~disk.readable
       \/ Len(disk.lines) = 0
       \/ (disk.fault.load \in 1..2 /\ disk.fault.line \in 1..Len(disk.lines))

\* One of the four fatal conditions holds of the run's inputs.
FatalCondition ==
    \/ Len(argv) # Argc
    \/ Unrecognized(AllAbbreviations) # <<>>
    \/ ~disk.exists
    \/ ReadFailure

\* Some action can be taken.  (The scan of a line is enabled whenever a line
\* is left to read: both branches of its outcome are total.)
CanStep ==
    \/ pc = "for" /\ pos < Len(disk.lines)
    \/ ENABLED (Banner \/ parse_arguments \/ validate_books \/ ResolvePrefixes
                  \/ BeginLoad \/ OpenFile \/ SkipHeader \/ EndScan
                  \/ HandleFileNotFound \/ HandleException \/ Difference
                  \/ Statistics \/ ListHeading \/ PrintWord \/ PrintTotal
                  \/ NoUnique \/ ReturnFromMain)

\* C3: a run that has not ended can take a step; a run that has ended has
\* exactly one exit status and takes no further step; the status is non-zero
\* exactly when one of the four fatal conditions holds, and zero otherwise.
C3_ExitStatus ==
    /\ pc # "exited" => (status = <<>> /\ CanStep)
    /\ pc = "exited" =>
          /\ Len(status) = 1
          /\ ~ENABLED Next
          /\ status[1] \in {0, 1}
          /\ (status[1] # 0) <=> FatalCondition

\* A successful run whose difference is empty though the second set is not.
C3_Witness ==
    pc = "exited" /\ status = <<0>> /\ unique_vocab = {} /\ second_vocab # {}

\* Validation is over: the arguments were two and validate_books has run.
Validated == Len(argv) = Argc /\ pc \notin {"main", "parse_arguments", "validate_books"}

\* C4: once validation has run, if some abbreviation of either list is not a
\* key of the table the run has failed with exactly one validation error,
\* whose message lists every unrecognized abbreviation of both lists in input
\* order; if every abbreviation is a key, there is no validation error.
C4_ValidationListsAll ==
    Validated =>
        IF Unrecognized(AllAbbreviations) # <<>>
        THEN /\ status = <<1>>
             /\ Len(MsgsOf("unrecognized")) = 1
             /\ MsgsOf("unrecognized")[1].ws = Unrecognized(AllAbbreviations)
        ELSE ~HasMsg("unrecognized")

\* Both lists hold unrecognized abbreviations, one a lower-case book code.
C4_Witness ==
    /\ Validated
    /\ HasMsg("unrecognized")
    /\ MsgsOf("unrecognized")[1].ws = <<"XYZ", "xyz", "mat">>

\* C9: on every run that reaches vocabulary loading, both groups hold at
\* least one book code.
C9_GroupsNonEmpty ==
    loadNo >= 1 => (Len(first_prefixes) >= 1 /\ Len(second_prefixes) >= 1)

\* The messages of the report: the statistics block, the word list and the
\* notice of an empty difference.
ReportIds ==
    {"statistics", "words_first", "words_second", "words_unique", "unique_found",
     "word", "total", "no_unique", "all_appear"}

\* The four error messages, as printed.
UsageMessage == Println(Msg("usage", 0, <<>>)) \o Println(Msg("usage_example", 0, <<>>))
NotFoundMessage == Println(Msg("file_not_found", 0, <<>>)) \o Println(Msg("file_hint", 0, <<>>))
ReadErrorMessage == Println(Msg("error_reading", 0, <<>>))
IsUnknownBookMessage(tail) ==
    /\ Len(tail) = 4
    /\ tail[1].id = "unrecognized" /\ tail[2] = NL
    /\ tail[3] = Msg("valid_hint", 0, <<>>) /\ tail[4] = NL

ErrorIds ==
    {"usage", "usage_example", "unrecognized", "valid_hint", "file_not_found",
     "file_hint", "error_reading"}

\* C5: once an error message is printed the run has ended with status 1; a
\* run that has ended with a non-zero status takes no further step; its
\* output ends with the one error message and holds no other error message
\* and no piece of the report; after a usage error or an unknown abbreviation
\* no load was started, no handle acquired and no progress message printed;
\* after a failure of the first load the second was not started.
C5_FatalErrorEndsRun ==
    /\ (\E k \in 1..Len(out) : out[k].id \in ErrorIds) => (pc = "exited" /\ status = <<1>>)
    /\ (pc = "exited" /\ status = <<1>>) =>
        /\ ~ENABLED Next
        /\ \/ EndsWith(out, UsageMessage)
           \/ EndsWith(out, NotFoundMessage)
           \/ EndsWith(out, ReadErrorMessage)
           \/ (Len(out) >= 4 /\ IsUnknownBookMessage(SubSeq(out, Len(out) - 3, Len(out))))
        /\ Len(SelectSeq(out, LAMBDA m : m.id \in ErrorIds)) \in {1, 2}
        /\ \A k \in 1..Len(out) : out[k].id \notin ReportIds
        /\ (HasMsg("usage") \/ HasMsg("unrecognized")) =>
              /\ loadNo = 0 /\ opens = 0
              /\ ~HasMsg("loading_first") /\ ~HasMsg("loading_second")
        /\ loadNo = 1 => (~HasMsg("loading_second") /\ opens <= 1)

\* The first load has failed in the middle of the scan.
C5_Witness ==
    /\ pc = "exited" /\ status = <<1>>
    /\ loadNo = 1 /\ pos >= 2
    /\ EndsWith(out, ReadErrorMessage)

\* The difference has been computed.
DifferenceDone ==
    \/ pc \in {"statistics", "list", "no unique", "enumerate", "return"}
    \/ (pc = "exited" /\ status = <<0>>)

\* C6: once computed, the difference R of the loaded sets A (first) and B
\* (second) holds only elements of B that are not in A, every element of B is
\* in A or in R, |R| = |B| - |B intersect A|, and the statistics block, once
\* printed, shows |A|, |B| and |R|, in this order.
C6_SetDifference ==
    DifferenceDone =>
        /\ \A w \in unique_vocab : w \in second_vocab /\ w \notin first_vocab
        /\ \A w \in second_vocab : w \in first_vocab \/ w \in unique_vocab
        /\ Cardinality(unique_vocab) =
              Cardinality(second_vocab) - Cardinality(second_vocab \cap first_vocab)
        /\ pc # "statistics" =>
              /\ MsgsOf("words_first") = <<Msg("words_first", Cardinality(first_vocab), <<>>)>>
              /\ MsgsOf("words_second") = <<Msg("words_second", Cardinality(second_vocab), <<>>)>>
              /\ MsgsOf("words_unique") = <<Msg("words_unique", Cardinality(unique_vocab), <<>>)>>
              /\ \E k \in 1..Len(out) :
                    /\ out[k].id = "words_first"
                    /\ k + 4 <= Len(out)
                    /\ out[k + 2].id = "words_second"
                    /\ out[k + 4].id = "words_unique"

\* The two sets overlap and the difference is not empty, after the report.
C6_Witness ==
    /\ pc = "exited" /\ status = <<0>>
    /\ first_vocab \cap second_vocab # {}
    /\ unique_vocab # {}
    /\ HasMsg("words_unique")

\* C7: at most one handle is open at any moment, and only during the scan of
\* the load that acquired it; each load acquires the handle at most once, the
\* first before the second, at most two in all; every handle is closed when
\* the load ends, by the end of the scan or by a failure, before the next
\* load and the report; none is open when the process has ended.
C7_FileHandle ==
    /\ handles \in {0, 1}
    /\ opens <= loadNo /\ loadNo <= 2
    /\ handles = 1 <=> pc \in {"next", "for"}
    /\ pc \in {"next", "for"} => opens = loadNo
    /\ pc = "load" => opens = loadNo
    /\ DifferenceDone => opens = 2
    /\ pc = "exited" => handles = 0

\* The second load has failed in the middle of its scan, and the run ended.
C7_Witness ==
    /\ pc = "exited" /\ status = <<1>>
    /\ opens = 2 /\ pos >= 2 /\ handles = 0

\* The lines of the output, and those that hold a word.
OutLines == SplitOn(out, NL)
WordLines == SelectSeq(OutLines, LAMBDA l : \E k \in 1..Len(l) : l[k].id = "word")
\* The words printed, in the order printed.
WordsPrinted == [k \in 1..Len(MsgsOf("word")) |-> RStrip(MsgsOf("word")[k].ws)]

\* C8: when a run has ended with status 0 and the difference holds n words:
\* if n > 0 the output holds every word of the difference exactly once, in
\* ascending order, on ceil(n/6) lines of six words each but the last, which
\* holds the rest, and ends with the total line, whose number is n; if n = 0
\* it holds no word and no total line, and holds the notice.
C8_Report ==
    (pc = "exited" /\ status = <<0>>) =>
        LET n == Cardinality(unique_vocab)
        IN IF n > 0
           THEN /\ Len(WordsPrinted) = n
                /\ {WordsPrinted[k] : k \in 1..n} = unique_vocab
                /\ \A k \in 1..(n - 1) : StrLess(WordsPrinted[k], WordsPrinted[k + 1])
                /\ Len(WordLines) = (n + Columns - 1) \div Columns
                /\ \A k \in 1..Len(WordLines) :
                      /\ \A m \in 1..Len(WordLines[k]) : WordLines[k][m].id = "word"
                      /\ Len(WordLines[k]) =
                            IF k < Len(WordLines) THEN Columns ELSE n - Columns * (k - 1)
                /\ EndsWith(out, <<NL>> \o Println(Msg("total", n, <<>>)))
                /\ Len(MsgsOf("total")) = 1
                /\ ~HasMsg("no_unique")
           ELSE /\ ~HasMsg("word")
                /\ ~HasMsg("total")
                /\ HasMsg("no_unique")

\* A difference of two full lines and a part of a third has been printed.
C8_Witness ==
    /\ pc = "exited" /\ status = <<0>>
    /\ Cardinality(unique_vocab) > 2 * Columns
    /\ Cardinality(unique_vocab) % Columns # 0

\* A line after the first gives the token to one of the run's prefixes.
IsDataRowToken(w) ==
    \E j \in 2..Len(disk.lines) :
        w \in ProcessLine(disk.lines[j], first_prefixes \o second_prefixes, {})

\* C10: with a corpus file that exists and holds no line, no load ever
\* returns: the run ends in the first load with the read-error message and
\* status 1.  With a file of the header line alone, read without failure,
\* both loads return the empty set and the run ends with status 0.  No token
\* is ever taken from the first line.
C10_HeaderSkip ==
    /\ (disk.exists /\ disk.readable /\ Len(disk.lines) = 0) =>
          /\ loadNo <= 1
          /\ pc \notin {"for", "difference"} /\ ~DifferenceDone
          /\ (pc = "exited" /\ loadNo = 1) =>
                (status = <<1>> /\ EndsWith(out, ReadErrorMessage))
    /\ (Len(disk.lines) = 1 /\ disk.fault.line # 1) =>
          /\ vocabulary = {} /\ first_vocab = {} /\ second_vocab = {}
          /\ (pc = "exited" /\ loadNo >= 1) => status = <<0>>
    /\ \A w \in vocabulary \cup first_vocab \cup second_vocab : IsDataRowToken(w)

\* The one line of the file is a well-formed record of Matthew, Matthew is
\* in the second group, and the run has ended.
C10_Witness ==
    /\ pc = "exited" /\ status = <<0>>
    /\ disk.lines = <<Row(MatId, <<"z">>, <<>>)>>
    /\ InList(<<"4", "0">>, second_prefixes)

=============================================================================
